---- MODULE Spec2Model ----
(***************************************************************************)
(* Model of eqsat.py: tokenizer, recursive-descent parser, printer, the    *)
(* in-place rewrite pass, the saturation driver and the cost model, run as *)
(* the pipeline of the module's main block.                                *)
(*                                                                         *)
(* Python strings are sequences of one-character strings, so that          *)
(* tokenizing, printing, int() and str() are computed and not assumed.     *)
(* ASTNode objects live in a heap (a sequence of records indexed by object *)
(* identity), so that aliasing and in-place assignment are visible.        *)
(***************************************************************************)
EXTENDS Integers, Sequences, FiniteSets, TLC

VARIABLES
    expr,        \* the input string
    tokens,      \* tokenize(expr)
    parsed,      \* what parse_expression read: its factors and groups
    heap,        \* the ASTNode objects allocated so far
    ast,         \* main's ast
    printed,     \* the strings main has printed, in order
    prev,        \* saturation's prev
    current,     \* saturation's current
    argValue,    \* structural value of saturation's argument at the call
    optimized,   \* main's optimized
    costs,       \* <<Cost Before, Cost After>> as main prints them
    error,       \* the exception that ended main, or ""
    pc

vars == <<expr, tokens, parsed, heap, ast, printed, prev, current, argValue,
          optimized, costs, error, pc>>

(***************************************************************************)
(* Bounds of the model.                                                    *)
(***************************************************************************)
MaxChars == 4
MaxLeaves == 3
MaxFactorLeaves == 4
MaxOperandLeaves == 2

(***************************************************************************)
(* the({e : x \in {v}}) is e with x bound to the value of v: a local name  *)
(* for a result that is computed once.                                     *)
(***************************************************************************)
the(S) == CHOOSE x \in S : TRUE

(***************************************************************************)
(* Characters.                                                             *)
(***************************************************************************)
DigitChars == <<"0", "1", "2", "3", "4", "5", "6", "7", "8", "9">>
Digits == {DigitChars[k] : k \in 1..Len(DigitChars)}
Letters == {"a", "b", "c", "x", "y"}
Symbols == {"+", "*", "/", "(", ")", "-"}

\* Python's None, as an object reference.
None == 0

(***************************************************************************)
(* str.isdigit / str.isalpha, int(s) and str(n) on decimal strings.        *)
(***************************************************************************)
isdigit(s) == Len(s) > 0 /\ \A k \in 1..Len(s) : s[k] \in Digits
isalpha(s) == Len(s) > 0 /\ \A k \in 1..Len(s) : s[k] \in Letters

DigitVal(c) == (CHOOSE k \in 1..Len(DigitChars) : DigitChars[k] = c) - 1

RECURSIVE int(_)
int(s) == IF Len(s) = 0 THEN 0
          ELSE int(SubSeq(s, 1, Len(s) - 1)) * 10 + DigitVal(s[Len(s)])

RECURSIVE str(_)
str(n) == IF n < 10 THEN <<DigitChars[n + 1]>>
          ELSE str(n \div 10) \o <<DigitChars[(n % 10) + 1]>>

(***************************************************************************)
(* tokenize: re.findall(r'\d+|[a-zA-Z]+|[+*/()-]', expr).  Positions are   *)
(* Python's (from 0); s[i + 1] is Python's s[i].                           *)
(***************************************************************************)
RECURSIVE RunEnd(_, _, _)
RunEnd(s, i, class) ==
    IF i < Len(s) /\ s[i + 1] \in class THEN RunEnd(s, i + 1, class) ELSE i

RECURSIVE findall(_, _)
findall(s, i) ==
    IF i >= Len(s) THEN <<>>
    ELSE LET c == s[i + 1] IN
         IF c \in Digits
         THEN LET j == RunEnd(s, i, Digits)
              IN  <<SubSeq(s, i + 1, j)>> \o findall(s, j)
         ELSE IF c \in Letters
         THEN LET j == RunEnd(s, i, Letters)
              IN  <<SubSeq(s, i + 1, j)>> \o findall(s, j)
         ELSE IF c \in Symbols
         THEN <<<<c>>>> \o findall(s, i + 1)
         ELSE findall(s, i + 1)

tokenize(e) == findall(e, 0)

(***************************************************************************)
(* ASTNode(value, left, right): allocation of a new object in the heap.    *)
(***************************************************************************)
ASTNode(h, value, left, right) ==
    LET h1 == Append(h, [value |-> value, left |-> left, right |-> right])
    IN  [h |-> h1, node |-> Len(h1)]

(***************************************************************************)
(* parse_expression.  The parser's state st is the heap it allocates in,   *)
(* with a record of what it has read: factors, the positions read as       *)
(* tokens[i] at line 25, and groups, the pairs <<i, j>> of a "(" read at i *)
(* whose closing position j line 30 stepped over.  A result is             *)
(* [err, st, node, i]; err is "" or the name of the exception raised       *)
(* (IndexError from tokens[i] past the end, ValueError from line 32),      *)
(* which propagates through every caller.                                  *)
(***************************************************************************)
NewParse == [h |-> <<>>, factors |-> {}, groups |-> {}]

Raise(st, e) == [err |-> e, st |-> st, node |-> None, i |-> 0]
Return(st, n, i) == [err |-> "", st |-> st, node |-> n, i |-> i]

Node(st, value, left, right) ==
    LET a == ASTNode(st.h, value, left, right)
    IN  [st |-> [st EXCEPT !.h = a.h], node |-> a.node]

RECURSIVE parse_factor(_, _, _)
RECURSIVE parse_term(_, _, _)
RECURSIVE parse_term_loop(_, _, _, _)
RECURSIVE parse_sum(_, _, _)
RECURSIVE parse_sum_loop(_, _, _, _)

\* parse_factor with the leaf test widened to every token but "("
parse_factor_lenient(st0, toks, i) ==
    the({ IF i >= Len(toks) THEN Raise(st, "IndexError")
          ELSE IF toks[i + 1] # <<"(">>
          THEN the({ Return(a.st, a.node, i + 1)
                     : a \in {Node(st, toks[i + 1], None, None)} })
          ELSE the({ IF r.err # "" THEN r
                     ELSE Return([r.st EXCEPT !.groups = @ \cup {<<i, r.i>>}],
                                 r.node, r.i + 1)
                     : r \in {parse_sum(st, toks, i + 1)} })
          : st \in {[st0 EXCEPT !.factors = @ \cup {i}]} })

parse_factor(st0, toks, i) ==
    the({ IF i >= Len(toks) THEN Raise(st, "IndexError")
          ELSE IF isdigit(toks[i + 1]) \/ isalpha(toks[i + 1])
          THEN the({ Return(a.st, a.node, i + 1)
                     : a \in {Node(st, toks[i + 1], None, None)} })
          ELSE IF toks[i + 1] = <<"(">>
          THEN the({ IF r.err # "" THEN r
                     ELSE Return([r.st EXCEPT !.groups = @ \cup {<<i, r.i>>}],
                                 r.node, r.i + 1)
                     : r \in {parse_sum(st, toks, i + 1)} })
          ELSE Raise(st, "ValueError")
          : st \in {[st0 EXCEPT !.factors = @ \cup {i}]} })

parse_term_loop(st, toks, node, i) ==
    IF i < Len(toks) /\ toks[i + 1] = <<"*">>
    THEN the({ IF r.err # "" THEN r
               ELSE the({ parse_term_loop(a.st, toks, a.node, r.i)
                          : a \in {Node(r.st, toks[i + 1], node, r.node)} })
               : r \in {parse_factor(st, toks, i + 1)} })
    ELSE Return(st, node, i)

parse_term(st, toks, i) ==
    the({ IF r.err # "" THEN r ELSE parse_term_loop(r.st, toks, r.node, r.i)
          : r \in {parse_factor(st, toks, i)} })

parse_sum_loop(st, toks, node, i) ==
    IF i < Len(toks) /\ toks[i + 1] = <<"+">>
    THEN the({ IF r.err # "" THEN r
               ELSE the({ parse_sum_loop(a.st, toks, a.node, r.i)
                          : a \in {Node(r.st, toks[i + 1], node, r.node)} })
               : r \in {parse_term(st, toks, i + 1)} })
    ELSE Return(st, node, i)

parse_sum(st, toks, i) ==
    the({ IF r.err # "" THEN r ELSE parse_sum_loop(r.st, toks, r.node, r.i)
          : r \in {parse_term(st, toks, i)} })

parse_expression(toks) == parse_sum(NewParse, toks, 0)

(***************************************************************************)
(* print_ast.                                                              *)
(***************************************************************************)
\* print_ast without the parentheses
RECURSIVE print_ast_flat(_, _)
print_ast_flat(h, n) ==
    IF h[n].left = None THEN h[n].value
    ELSE print_ast_flat(h, h[n].left) \o <<" ">> \o h[n].value
         \o <<" ">> \o print_ast_flat(h, h[n].right)

RECURSIVE print_ast(_, _)
print_ast(h, n) ==
    IF h[n].left = None THEN h[n].value
    ELSE <<"(">> \o print_ast(h, h[n].left) \o <<" ">> \o h[n].value
         \o <<" ">> \o print_ast(h, h[n].right) \o <<")">>

(***************************************************************************)
(* The structural value of the tree under a node: what ASTNode.__eq__      *)
(* compares and print_ast and cost read.  Shared objects are unfolded.     *)
(***************************************************************************)
RECURSIVE tree_of(_, _)
tree_of(h, n) ==
    IF h[n].left = None THEN <<h[n].value>>
    ELSE <<h[n].value, tree_of(h, h[n].left), tree_of(h, h[n].right)>>

(***************************************************************************)
(* ASTNode.__eq__ on two references (either may be None).                  *)
(***************************************************************************)
\* the comparison of a class without __eq__: object identity
eq_identity(h, a, b) == a = b

RECURSIVE eq(_, _, _)
eq(h, a, b) ==
    IF a = None \/ b = None THEN a = b
    ELSE /\ h[a].value = h[b].value
         /\ eq(h, h[a].left, h[b].left)
         /\ eq(h, h[a].right, h[b].right)

(***************************************************************************)
(* copy.deepcopy: every object reachable from n is copied once (the memo   *)
(* is keyed by object identity), so the copy shares what the original      *)
(* shares.                                                                 *)
(***************************************************************************)
RECURSIVE copy_memo(_, _, _, _)
copy_memo(src, dst, n, memo) ==
    IF n = None THEN [h |-> dst, node |-> None, memo |-> memo]
    ELSE IF n \in DOMAIN memo THEN [h |-> dst, node |-> memo[n], memo |-> memo]
    ELSE the({ the({ the({ [h    |-> [r.h EXCEPT ![y.node].left = l.node,
                                                 ![y.node].right = r.node],
                            node |-> y.node,
                            memo |-> r.memo]
                           : r \in {copy_memo(src, l.h, src[n].right, l.memo)} })
                     : l \in {copy_memo(src, y.h, src[n].left,
                                        memo @@ (n :> y.node))} })
               : y \in {ASTNode(dst, src[n].value, None, None)} })

\* no copy: the reference itself
no_copy(h, n) == [h |-> h, node |-> n]

deepcopy(h, n) ==
    the({ [h |-> c.h, node |-> c.node] : c \in {copy_memo(h, h, n, <<>>)} })

(***************************************************************************)
(* Reference counting: an object no variable reaches any more is freed.    *)
(* collect keeps the objects reachable from the references in roots, in    *)
(* the order a walk from the roots meets them, and returns the roots'      *)
(* references in the heap that is left.  What is shared stays shared.      *)
(***************************************************************************)
RECURSIVE collect_from(_, _, _, _, _)
collect_from(src, dst, roots, k, memo) ==
    IF k > Len(roots) THEN [h |-> dst, roots |-> <<>>]
    ELSE the({ the({ [h |-> rest.h, roots |-> <<c.node>> \o rest.roots]
                     : rest \in {collect_from(src, c.h, roots, k + 1, c.memo)} })
               : c \in {copy_memo(src, dst, roots[k], memo)} })

collect(h, roots) == collect_from(h, <<>>, roots, 1, <<>>)

(***************************************************************************)
(* rewrite: the children are rewritten and assigned back in place, then    *)
(* the first matching rule decides what is returned.                       *)
(***************************************************************************)
\* x * 0 -> 0: a new leaf (line 81)
new_zero(h, n) == ASTNode(h, <<"0">>, None, None)

\* folding that multiplies whatever the operator
fold_product(h, n) ==
    LET l == int(h[h[n].left].value)
        r == int(h[h[n].right].value)
    IN  ASTNode(h, str(l * r), None, None)

\* constant folding of two literal leaves (lines 85-88)
fold(h, n) ==
    LET l == int(h[h[n].left].value)
        r == int(h[h[n].right].value)
    IN  IF h[n].value = <<"+">> THEN ASTNode(h, str(l + r), None, None)
        ELSE ASTNode(h, str(l * r), None, None)

\* a * (b + c) -> a*b + a*c (lines 92-95)
distribute(h, n) ==
    LET a  == h[n].left
        b  == h[h[n].right].left
        c  == h[h[n].right].right
        ab == ASTNode(h, <<"*">>, a, b)
        ac == ASTNode(ab.h, <<"*">>, a, c)
    IN  ASTNode(ac.h, <<"+">>, ab.node, ac.node)

\* the rules with the distributive rule applied on either side:
\* (b + c) * a -> b*a + c*a as well
rules_symmetric(h, n) ==
    LET value == h[n].value
        left  == h[n].left
        right == h[n].right
    IN  IF value = <<"+">> /\ h[right].value = <<"0">>
        THEN [h |-> h, node |-> left]
        ELSE IF value = <<"+">> /\ h[left].value = <<"0">>
        THEN [h |-> h, node |-> right]
        ELSE IF value = <<"*">> /\ h[right].value = <<"1">>
        THEN [h |-> h, node |-> left]
        ELSE IF value = <<"*">> /\ h[left].value = <<"1">>
        THEN [h |-> h, node |-> right]
        ELSE IF value = <<"*">> /\ <<"0">> \in {h[left].value, h[right].value}
        THEN new_zero(h, n)
        ELSE IF /\ isdigit(h[left].value) /\ isdigit(h[right].value)
                /\ value \in {<<"+">>, <<"*">>}
        THEN fold(h, n)
        ELSE IF value = <<"*">> /\ h[right].value = <<"+">>
        THEN distribute(h, n)
        ELSE IF value = <<"*">> /\ h[left].value = <<"+">>
        THEN LET ba == ASTNode(h, <<"*">>, h[left].left, right)
                 ca == ASTNode(ba.h, <<"*">>, h[left].right, right)
             IN  ASTNode(ca.h, <<"+">>, ba.node, ca.node)
        ELSE [h |-> h, node |-> n]

rules(h, n) ==
    LET value == h[n].value
        left  == h[n].left
        right == h[n].right
    IN  IF value = <<"+">> /\ h[right].value = <<"0">>
        THEN [h |-> h, node |-> left]
        ELSE IF value = <<"+">> /\ h[left].value = <<"0">>
        THEN [h |-> h, node |-> right]
        ELSE IF value = <<"*">> /\ h[right].value = <<"1">>
        THEN [h |-> h, node |-> left]
        ELSE IF value = <<"*">> /\ h[left].value = <<"1">>
        THEN [h |-> h, node |-> right]
        ELSE IF value = <<"*">> /\ <<"0">> \in {h[left].value, h[right].value}
        THEN new_zero(h, n)
        ELSE IF /\ isdigit(h[left].value) /\ isdigit(h[right].value)
                /\ value \in {<<"+">>, <<"*">>}
        THEN fold(h, n)
        ELSE IF value = <<"*">> /\ h[right].value = <<"+">>
        THEN distribute(h, n)
        ELSE [h |-> h, node |-> n]

RECURSIVE rewrite(_, _)
rewrite(h, n) ==
    IF h[n].left = None THEN [h |-> h, node |-> n]
    ELSE the({ the({ the({ the({ rules(h2, n)
                                 : h2 \in {[r.h EXCEPT ![n].right = r.node]} })
                           : r \in {rewrite(h1, h1[n].right)} })
                     : h1 \in {[l.h EXCEPT ![n].left = l.node]} })
               : l \in {rewrite(h, h[n].left)} })

(***************************************************************************)
(* cost.                                                                   *)
(***************************************************************************)
RECURSIVE cost(_, _)
cost(h, n) ==
    IF h[n].left = None THEN 1
    ELSE 1 + cost(h, h[n].left) + cost(h, h[n].right)

(***************************************************************************)
(* saturation: one turn of the while loop, and the whole call.             *)
(***************************************************************************)
loop_body(h, cur) ==
    the({ the({ [h |-> c.h, prev |-> p.node, current |-> c.node]
                : c \in {rewrite(p.h, cur)} })
          : p \in {deepcopy(h, cur)} })

RECURSIVE saturation_loop(_, _, _)
saturation_loop(h, p, cur) ==
    IF eq(h, p, cur) THEN [h |-> h, node |-> cur]
    ELSE the({ saturation_loop(s.h, s.prev, s.current)
               : s \in {loop_body(h, cur)} })

saturation(h, a) ==
    the({ saturation_loop(c.h, None, c.node) : c \in {deepcopy(h, a)} })

(***************************************************************************)
(* Inputs.  Trees are values <<leaf>> or <<op, left, right>>; Source(t) is *)
(* the expression text of t as the test suite writes expressions: no       *)
(* spaces, parentheses only where precedence and left association need     *)
(* them.                                                                   *)
(***************************************************************************)
RECURSIVE TreesWithLeaves(_, _)
TreesWithLeaves(n, leaves) ==
    IF n = 1 THEN {<<v>> : v \in leaves}
    ELSE UNION {{<<op, l, r>> : op \in {<<"+">>, <<"*">>},
                                l \in TreesWithLeaves(k, leaves),
                                r \in TreesWithLeaves(n - k, leaves)}
                : k \in 1..(n - 1)}

Trees(n, leaves) == UNION {TreesWithLeaves(k, leaves) : k \in 1..n}

Paren(s) == <<"(">> \o s \o <<")">>

RECURSIVE Source(_)
Source(t) ==
    IF Len(t) = 1 THEN t[1]
    ELSE IF t[1] = <<"+">>
    THEN Source(t[2]) \o t[1]
         \o (IF t[3][1] = <<"+">> THEN Paren(Source(t[3])) ELSE Source(t[3]))
    ELSE (IF t[2][1] = <<"+">> THEN Paren(Source(t[2])) ELSE Source(t[2]))
         \o t[1]
         \o (IF Len(t[3]) > 1 THEN Paren(Source(t[3])) ELSE Source(t[3]))

LeafValues == {<<"0">>, <<"1">>, <<"2">>, <<"x">>}
TextChars == {"1", "a", "+", "*", "-", "/", "(", ")", " "}

Strings(n) == UNION {[1..k -> TextChars] : k \in 0..n}

Start(e) ==
    /\ expr = e
    /\ tokens = <<>>
    /\ parsed = [factors |-> {}, groups |-> {}]
    /\ heap = <<>>
    /\ ast = None
    /\ printed = <<>>
    /\ prev = None
    /\ current = None
    /\ argValue = <<>>
    /\ optimized = None
    /\ costs = <<>>
    /\ error = ""
    /\ pc = "input"

\* well-formed expressions over + and *
Init == \E t \in Trees(MaxLeaves, LeafValues) : Start(Source(t))

\* arbitrary short strings, malformed ones included
InitText == \E e \in Strings(MaxChars) : Start(e)

\* the test suite's distributive shape a*(b+c) with a compound factor a
FactorLeafValues == {<<"2">>, <<"x">>}
SumOfTwo == <<<<"+">>, <<<<"x">>>>, <<<<"y">>>>>>
InitShared ==
    \E a \in Trees(MaxFactorLeaves, FactorLeafValues) :
        Start(Source(<<<<"*">>, a, SumOfTwo>>))

\* the test suite's nested identities: a product by (s * 1), as (a+0)*1
OperandLeafValues == {<<"x">>, <<"y">>}
InitByOne ==
    \E a \in Trees(MaxOperandLeaves, OperandLeafValues),
       s \in Trees(MaxOperandLeaves, OperandLeafValues) :
        Start(Source(<<<<"*">>, a, <<<<"*">>, s, <<<<"1">>>>>>>>))

(***************************************************************************)
(* The main block, one action per statement; saturation's loop one action  *)
(* per turn.  A call's result is bound once, as the one element of a set.  *)
(***************************************************************************)
\* line 117
Tokenize ==
    /\ pc = "input"
    /\ tokens' = tokenize(expr)
    /\ pc' = "tokens"
    /\ UNCHANGED <<expr, parsed, heap, ast, printed, prev, current, argValue,
                   optimized, costs, error>>

\* line 118
Parse ==
    /\ pc = "tokens"
    /\ \E r \in {parse_expression(tokens)} :
           /\ parsed' = [factors |-> r.st.factors, groups |-> r.st.groups]
           /\ IF r.err # ""
              THEN /\ error' = r.err
                   /\ pc' = "failed"
                   /\ UNCHANGED <<heap, ast>>
              ELSE /\ heap' = r.st.h
                   /\ ast' = r.node
                   /\ pc' = "parsed"
                   /\ UNCHANGED error
    /\ UNCHANGED <<expr, tokens, printed, prev, current, argValue, optimized,
                   costs>>

\* line 120
PrintOriginal ==
    /\ pc = "parsed"
    /\ printed' = Append(printed, print_ast(heap, ast))
    /\ pc' = "call"
    /\ UNCHANGED <<expr, tokens, parsed, heap, ast, prev, current, argValue,
                   optimized, costs, error>>

\* lines 101-102
SaturationEnter ==
    /\ pc = "call"
    /\ \E c \in {deepcopy(heap, ast)} :
           /\ heap' = c.h
           /\ current' = c.node
    /\ prev' = None
    /\ argValue' = tree_of(heap, ast)
    /\ pc' = "loop"
    /\ UNCHANGED <<expr, tokens, parsed, ast, printed, optimized, costs, error>>

\* lines 103-105
SaturationPass ==
    /\ pc = "loop"
    /\ ~eq(heap, prev, current)
    /\ \E s \in {loop_body(heap, current)} :
       \E g \in {collect(s.h, <<ast, s.prev, s.current>>)} :
           /\ heap' = g.h
           /\ ast' = g.roots[1]
           /\ prev' = g.roots[2]
           /\ current' = g.roots[3]
    /\ UNCHANGED <<expr, tokens, parsed, printed, argValue, optimized, costs,
                   error, pc>>

\* the loop left after its first turn, whatever the comparison says
SaturationReturnAfterOnePass ==
    /\ pc = "loop"
    /\ prev # None
    /\ \E g \in {collect(heap, <<ast, current>>)} :
           /\ heap' = g.h
           /\ ast' = g.roots[1]
           /\ optimized' = g.roots[2]
    /\ prev' = None
    /\ current' = None
    /\ pc' = "returned"
    /\ UNCHANGED <<expr, tokens, parsed, printed, argValue, costs, error>>

\* lines 103, 106 and the assignment of line 121
SaturationReturn ==
    /\ pc = "loop"
    /\ eq(heap, prev, current)
    /\ \E g \in {collect(heap, <<ast, current>>)} :
           /\ heap' = g.h
           /\ ast' = g.roots[1]
           /\ optimized' = g.roots[2]
    /\ prev' = None
    /\ current' = None
    /\ pc' = "returned"
    /\ UNCHANGED <<expr, tokens, parsed, printed, argValue, costs, error>>

\* line 122
PrintOptimized ==
    /\ pc = "returned"
    /\ printed' = Append(printed, print_ast(heap, optimized))
    /\ pc' = "costs"
    /\ UNCHANGED <<expr, tokens, parsed, heap, ast, prev, current, argValue,
                   optimized, costs, error>>

\* lines 123-124
PrintCosts ==
    /\ pc = "costs"
    /\ costs' = <<cost(heap, ast), cost(heap, optimized)>>
    /\ pc' = "done"
    /\ UNCHANGED <<expr, tokens, parsed, heap, ast, printed, prev, current,
                   argValue, optimized, error>>

Next ==
    \/ Tokenize
    \/ Parse
    \/ PrintOriginal
    \/ SaturationEnter
    \/ SaturationPass
    \/ SaturationReturn
    \/ PrintOptimized
    \/ PrintCosts

Spec == Init /\ [][Next]_vars
SpecText == InitText /\ [][Next]_vars
SpecShared == InitShared /\ [][Next]_vars
SpecCost == (Init \/ InitByOne) /\ [][Next]_vars

\* main runs its statements one after another until it ends
FairSpec == Spec /\ WF_vars(Next)

(***************************************************************************)
(* Notions the properties are stated with.                                 *)
(***************************************************************************)
Minus == <<"-">>
Slash == <<"/">>
Close == <<")">>
Plus == <<"+">>
Times == <<"*">>

\* the objects reachable from a reference
RECURSIVE Reach(_, _)
Reach(h, n) ==
    IF n = None THEN {}
    ELSE {n} \cup Reach(h, h[n].left) \cup Reach(h, h[n].right)

\* no object is reached along two paths: as many objects as tree positions
IsStrictTree(h, n) == Cardinality(Reach(h, n)) = cost(h, n)

\* on tree values: node count, operators present, value under an assignment
RECURSIVE TreeCost(_)
TreeCost(t) == IF Len(t) = 1 THEN 1 ELSE 1 + TreeCost(t[2]) + TreeCost(t[3])

RECURSIVE HasOp(_, _)
HasOp(t, op) == Len(t) = 3 /\ (t[1] = op \/ HasOp(t[2], op) \/ HasOp(t[3], op))

RECURSIVE Value(_, _)
Value(t, env) ==
    IF Len(t) = 1 THEN (IF isdigit(t[1]) THEN int(t[1]) ELSE env[t[1]])
    ELSE IF t[1] = Plus THEN Value(t[2], env) + Value(t[3], env)
    ELSE Value(t[2], env) * Value(t[3], env)

Identifiers == {<<"x">>, <<"y">>}
Assignments == [Identifiers -> {-2, 0, 1, 3}]

\* some "*" node has a "+" node as its right child
RECURSIVE ProductOverSum(_)
ProductOverSum(t) ==
    /\ Len(t) = 3
    /\ \/ t[1] = Times /\ Len(t[3]) = 3 /\ t[3][1] = Plus
       \/ ProductOverSum(t[2])
       \/ ProductOverSum(t[3])

\* some "*" node has a "+" node anywhere in its right subtree
RECURSIVE ProductOverNestedSum(_)
ProductOverNestedSum(t) ==
    /\ Len(t) = 3
    /\ \/ t[1] = Times /\ HasOp(t[3], Plus)
       \/ ProductOverNestedSum(t[2])
       \/ ProductOverNestedSum(t[3])

\* the value-producing pass of the Rewrite Pass contract: children first,
\* then the first matching rule of rules 1-7, once
RECURSIVE pass_value(_)
pass_value(t) ==
    IF Len(t) = 1 THEN t
    ELSE LET op == t[1]
             l  == pass_value(t[2])
             r  == pass_value(t[3])
         IN  IF op = Plus /\ r = <<<<"0">>>> THEN l
             ELSE IF op = Plus /\ l = <<<<"0">>>> THEN r
             ELSE IF op = Times /\ r = <<<<"1">>>> THEN l
             ELSE IF op = Times /\ l = <<<<"1">>>> THEN r
             ELSE IF op = Times /\ (l = <<<<"0">>>> \/ r = <<<<"0">>>>)
             THEN <<<<"0">>>>
             ELSE IF /\ Len(l) = 1 /\ Len(r) = 1
                     /\ isdigit(l[1]) /\ isdigit(r[1])
             THEN (IF op = Plus THEN <<str(int(l[1]) + int(r[1]))>>
                   ELSE <<str(int(l[1]) * int(r[1]))>>)
             ELSE IF op = Times /\ Len(r) = 3 /\ r[1] = Plus
             THEN <<Plus, <<Times, l, r[2]>>, <<Times, l, r[3]>>>>
             ELSE <<op, l, r>>

\* the token at the closing position of group g is not ")"
Unclosed(g) == ~(g[2] < Len(tokens) /\ tokens[g[2] + 1] = Close)

\* the k-th token was read as tokens[i] by parse_factor
ReadAsFactor(k) == (k - 1) \in parsed.factors

InSaturation == pc = "loop"
AfterSaturation == pc \in {"returned", "costs", "done"}
AfterParse == pc \notin {"input", "tokens"}

\* the tree saturation holds, or has returned
Held == IF pc = "loop" THEN current ELSE optimized

(***************************************************************************)
(* C1.  Saturation is idempotent: saturation applied to the tree that      *)
(* saturation returned gives a structurally equal tree, and so does one    *)
(* further rewrite pass over the returned tree.                            *)
(***************************************************************************)
SaturationIdempotent ==
    pc = "returned" =>
        LET again == saturation(heap, optimized)
            once  == rewrite(heap, optimized)
        IN  /\ tree_of(again.h, again.node) = tree_of(heap, optimized)
            /\ tree_of(once.h, once.node) = tree_of(heap, optimized)

\* saturation has returned a tree that its passes changed and that shares
IdempotentWitness ==
    /\ pc = "returned"
    /\ tree_of(heap, optimized) # argValue
    /\ ~IsStrictTree(heap, optimized)

(***************************************************************************)
(* C2.  The saturation driver terminates: every run of main on a           *)
(* well-formed expression over + and * reaches its end, so the loop of     *)
(* saturation meets a pass that changes nothing after finitely many        *)
(* passes.                                                                 *)
(***************************************************************************)
SaturationTerminates == <>(pc \in {"done", "failed"})

\* the loop goes into a third pass
TerminatesWitness ==
    /\ pc = "loop"
    /\ prev # None
    /\ tree_of(heap, prev) # argValue
    /\ ~eq(heap, prev, current)

(***************************************************************************)
(* C3.  As claimed: when no "*" node of the parsed tree has a "+" node as  *)
(* its right child, the cost of the saturated tree is at most the cost of  *)
(* the parsed tree.                                                        *)
(***************************************************************************)
CostNonIncreasing ==
    (AfterSaturation /\ ~ProductOverSum(argValue)) =>
        cost(heap, optimized) <= TreeCost(argValue)

(***************************************************************************)
(* C3, amended.  When no "*" node of the parsed tree has a "+" node        *)
(* anywhere in its right subtree, the cost of the saturated tree is at     *)
(* most the cost of the parsed tree, and so are the costs main prints.     *)
(***************************************************************************)
CostNonIncreasingNoNestedSum ==
    (AfterSaturation /\ ~ProductOverNestedSum(argValue)) =>
        /\ cost(heap, optimized) <= TreeCost(argValue)
        /\ pc = "done" => costs[2] <= costs[1]

\* a tree with a product and a sum, no sum under a product's right side,
\* that saturation made cheaper
CostWitness ==
    /\ pc = "done"
    /\ ~ProductOverNestedSum(argValue)
    /\ HasOp(argValue, Times)
    /\ HasOp(argValue, Plus)
    /\ costs[2] < costs[1]

(***************************************************************************)
(* C4.  An unclosed parenthesis is a parse error: when the token at the    *)
(* closing position of a group the parser opened is not ")" (or there is   *)
(* no token there), parse_expression fails and returns no tree.            *)
(***************************************************************************)
UnclosedGroupIsError ==
    (AfterParse /\ \E g \in parsed.groups : Unclosed(g)) => pc = "failed"

(***************************************************************************)
(* C5.  As claimed: a token sequence that contains a "-" or "/" token at   *)
(* any position is rejected by parse_expression.                           *)
(***************************************************************************)
MinusOrSlashRejected ==
    (AfterParse /\ \E k \in 1..Len(tokens) : tokens[k] \in {Minus, Slash})
        => pc = "failed"

(***************************************************************************)
(* C5, amended.  A "-" or "/" token that parse_expression reads where it   *)
(* expects a factor (the first token, or the token after a "+", "*" or "(" *)
(* it has consumed) makes it raise ValueError and return no tree.          *)
(***************************************************************************)
MinusOrSlashAsFactorRejected ==
    (AfterParse /\ \E k \in 1..Len(tokens) :
                      tokens[k] \in {Minus, Slash} /\ ReadAsFactor(k))
        => (pc = "failed" /\ error = "ValueError" /\ ast = None)

\* a "-" or "/" read as a factor after the first token
MinusOrSlashWitness ==
    /\ pc = "failed"
    /\ \E k \in 2..Len(tokens) :
           tokens[k] \in {Minus, Slash} /\ ReadAsFactor(k)

(***************************************************************************)
(* C6.  Strict tree: in every tree the saturation driver holds after any   *)
(* number of passes, and in the tree it returns, no node is the child of   *)
(* two nodes or of both child slots of one node.                           *)
(***************************************************************************)
AlwaysStrictTree ==
    (InSaturation \/ AfterSaturation) => IsStrictTree(heap, Held)

(***************************************************************************)
(* C7.  Round trip: parsing the tokens of the printed form of a parsed     *)
(* tree gives a tree structurally equal to it, which prints the same.      *)
(***************************************************************************)
PrintParseRoundTrip ==
    pc = "call" =>
        LET r == parse_expression(tokenize(printed[1]))
        IN  /\ r.err = ""
            /\ tree_of(r.st.h, r.node) = tree_of(heap, ast)
            /\ print_ast(r.st.h, r.node) = printed[1]

\* a printed tree whose shape the expression needed parentheses for
RoundTripWitness ==
    /\ pc = "call"
    /\ LET t == tree_of(heap, ast)
       IN  Len(t) = 3 /\ t[1] = Times /\ Len(t[2]) = 3 /\ t[2][1] = Plus

(***************************************************************************)
(* C8.  Each pass is one pure bottom-up pass: the tree the in-place        *)
(* rewrite returns is structurally equal to the value-producing pass       *)
(* applied to the structural value of the tree before the pass (which      *)
(* prev holds a copy of).                                                  *)
(***************************************************************************)
PassIsPure ==
    (InSaturation /\ prev # None) =>
        tree_of(heap, current) = pass_value(tree_of(heap, prev))

(***************************************************************************)
(* C9.  Value preservation: under every assignment of integers to the      *)
(* identifiers, the tree saturation holds after each pass, and the tree it *)
(* returns, evaluate to the same integer as the parsed tree.               *)
(***************************************************************************)
ValuePreserved ==
    (InSaturation \/ AfterSaturation) =>
        \A env \in Assignments :
            Value(tree_of(heap, Held), env) = Value(argValue, env)

\* a pass has folded constants of a tree with an identifier
ValueWitness ==
    /\ InSaturation
    /\ prev # None
    /\ HasOp(argValue, Times)
    /\ \E k \in 1..Len(heap) : isdigit(heap[k].value) /\ int(heap[k].value) > 2
    /\ \E k \in Reach(heap, current) : isalpha(heap[k].value)

(***************************************************************************)
(* C10.  saturation leaves its argument unchanged: after it returns, ast   *)
(* has the structural value it had at the call, prints as it printed       *)
(* before the call, and the cost main prints for it is the cost of that    *)
(* value.                                                                  *)
(***************************************************************************)
ArgumentUnchanged ==
    AfterSaturation =>
        /\ tree_of(heap, ast) = argValue
        /\ print_ast(heap, ast) = printed[1]
        /\ pc = "done" => costs[1] = TreeCost(argValue)

\* main has printed two different costs
ArgumentWitness ==
    /\ pc = "done"
    /\ costs[1] # costs[2]
    /\ tree_of(heap, optimized) # tree_of(heap, ast)

====
